---- MODULE Spec2Model ----
(***************************************************************************)
(* A model of app_with_txt.py, the Streamlit script of the Demand Spike    *)
(* Early Warning Agent.                                                    *)
(*                                                                         *)
(* Streamlit's execution model: every user interaction (a widget change or *)
(* a button click) reruns the whole script from the top; an on_click       *)
(* callback runs before that rerun; a button returns True only in the run  *)
(* its own click triggered; the output of the previous run is replaced.    *)
(* The script blocks on two external calls, model.generate_content and the *)
(* SMTP session of send_email; the run is modelled as the steps between    *)
(* them: ScriptRun (top of the script to the model call), GenerateReturns  *)
(* (reply handling to the SMTP session) and SmtpReturns.  The user acts    *)
(* only once a run has finished.                                           *)
(***************************************************************************)
EXTENDS Integers, Sequences, FiniteSets, TLC

VARIABLES
    secrets,        \* .streamlit/secrets.toml: [file, keys]
    session_state,  \* st.session_state: a function from the keys present to values
    session_only,   \* keys assigned through st.session_state and not yet claimed by a widget
    clicked,        \* the button whose click triggered the current run ("none": a widget change or page load)
    pc,             \* "rerun", "generate_content", "smtp", "done", "stopped", "crashed"
    screen,         \* what the current run has rendered so far: a sequence of st.* calls
    locals,         \* the script's variables bound so far in the current run
    calls           \* the external calls made so far in the current run

vars == <<secrets, session_state, session_only, clicked, pc, screen, locals, calls>>

----------------------------------------------------------------------------
(* Bounds and program constants *)

\* The longest JSON list the external model returns.
MaxAlerts == 2

\* st.slider(min_value=10, max_value=50, value=25, step=5)
SliderMin == 10
SliderMax == 50
SliderStep == 5
SliderDefault == 25
\* slump_threshold = 25 when the slump slider is not rendered
SlumpThresholdDefault == 25
\* smtplib.SMTP("smtp.gmail.com", 587)
SmtpPort == 587

SliderValues == {v \in SliderMin..SliderMax : (v - SliderMin) % SliderStep = 0}
\* The slider positions the user picks from.
SliderChoices == {v \in SliderValues : v \in {SliderDefault, SliderMax}}
Recipients == {"", "ops-manager@coffeeshop.com"}
Contexts == {"", "Festive offer on cold drinks"}

----------------------------------------------------------------------------
(* Secrets *)

SecretKeys == {"GEMINI_API_KEY", "SENDER_EMAIL", "SENDER_PASSWORD"}
SecretsConfigs ==
    {[file |-> FALSE, keys |-> {}]} \cup {[file |-> TRUE, keys |-> k] : k \in SUBSET SecretKeys}

\* st.secrets[key]: the exception it raises, "none" when the key is there.
SecretLookup(key) ==
    IF ~secrets.file THEN "FileNotFoundError"
    ELSE IF key \notin secrets.keys THEN "KeyError"
    ELSE "none"

----------------------------------------------------------------------------
(* Uploaded files *)

None == [kind |-> "None"]
Csv(readable, columns, dates_parse, rows) ==
    [kind |-> "csv", readable |-> readable, columns |-> columns,
     dates_parse |-> dates_parse, rows |-> rows]
AllColumns == {"date", "sku", "sales", "location"}
GoodCsv == Csv(TRUE, AllColumns, TRUE, TRUE)
BadDatesCsv == Csv(TRUE, AllColumns, FALSE, TRUE)
NoSkuCsv == Csv(TRUE, AllColumns \ {"sku"}, TRUE, TRUE)
NoDateCsv == Csv(TRUE, AllColumns \ {"date"}, FALSE, TRUE)
NoSalesCsv == Csv(TRUE, AllColumns \ {"sales"}, TRUE, TRUE)
HeaderOnlyNoDateCsv == Csv(TRUE, AllColumns \ {"date"}, FALSE, FALSE)
UnreadableCsv == Csv(FALSE, {}, FALSE, FALSE)
Files == {GoodCsv, BadDatesCsv, NoSkuCsv, NoDateCsv, NoSalesCsv, HeaderOnlyNoDateCsv, UnreadableCsv}

----------------------------------------------------------------------------
(* JSON values and the replies of the external model *)

AlertFields == <<"sku", "location", "today_sales", "avg_sales", "change_pct", "cause">>

JNull == [t |-> "null"]
JNumber(n) == [t |-> "number", n |-> n]
JString(s) == [t |-> "string", s |-> s]
JObject(members) == [t |-> "object", members |-> members]
JList(items) == [t |-> "list", items |-> items]
Garbage == [t |-> "garbage"]

SpikeA == JObject([type |-> "spike", sku |-> "Latte", location |-> "Pune",
                   today_sales |-> "180", avg_sales |-> "100", change_pct |-> "80",
                   cause |-> "Festive offer"])
SlumpB == JObject([type |-> "slump", sku |-> "Mocha", location |-> "Goa",
                   today_sales |-> "40", avg_sales |-> "90", change_pct |-> "-55",
                   cause |-> "Rain"])
NoCause == JObject([type |-> "spike", sku |-> "Chai", location |-> "Delhi",
                    today_sales |-> "70", avg_sales |-> "50", change_pct |-> "40"])
Surge == JObject([type |-> "surge", sku |-> "Cocoa", location |-> "Agra",
                  today_sales |-> "95", avg_sales |-> "60", change_pct |-> "58",
                  cause |-> "Cold wave"])
NotObject == JString("Latte spiked")
AlertValues == {SpikeA, SlumpB, Surge, NoCause, NotObject}

JsonLists == {JList(s) : s \in UNION {[1..n -> AlertValues] : n \in 0..MaxAlerts}}
JsonOthers == {JNull, JNumber(7), JObject(<<>>),
               JObject([error |-> "quota"]), JString("no issues")}
JsonValues == JsonLists \cup JsonOthers

\* response.text: a payload, wrapped in ```json fences or not, with prose around it or not.
ReplyText(fenced, prose, payload) == [fenced |-> fenced, prose |-> prose, payload |-> payload]
ReplyTexts ==
    {ReplyText(TRUE, FALSE, v) : v \in JsonValues}
    \cup {ReplyText(FALSE, FALSE, JList(<<>>)),
          ReplyText(TRUE, TRUE, JList(<<SpikeA>>)),
          ReplyText(FALSE, FALSE, Garbage)}

\* What model.generate_content does: it raises, it returns a response whose .text
\* raises (a blocked reply has no text), or it returns a response with text.
Responses ==
    {[kind |-> "raises"], [kind |-> "blocked"]}
    \cup {[kind |-> "text", text |-> t] : t \in ReplyTexts}

SmtpOutcomes == {"sent", "auth_rejected", "failed"}

----------------------------------------------------------------------------
(* st.* calls *)

Title == <<"title", "Autonomous Sales Agent V5 (Demo Ready)">>
Caption == <<"caption", "can autonomously send email alerts">>
Hr == <<"markdown", "---">>
Widget(label) == <<"widget", label>>
Error(what) == <<"error", what>>
Info(what) == <<"info", what>>
Warning(what) == <<"warning", what>>
Success(what) == <<"success", what>>
Markdown(what) == <<"markdown", what>>
MarkdownV(what, v) == <<"markdown", what, v>>
Expander(what) == <<"expander", what>>
LineChart(sku) == <<"line_chart", sku>>
RawText(response) == <<"text", response>>

ResetButton == "Reset Demo"
AnalyzeButton == "Analyze Sales Velocity"
SendButton == "Click Here to Send the Email Alert"

Shown(s, token) == \E i \in 1..Len(s) : s[i] = token
ShownKind(s, kind) == \E i \in 1..Len(s) : s[i][1] = kind

----------------------------------------------------------------------------
(* Session state *)

WidgetKeys == {"file_uploader", "recipient_email", "business_context", "alert_slider",
               "slump_checkbox", "slump_slider", "auto_send_checkbox"}

Put(ss, key, value) == [k \in DOMAIN ss \cup {key} |-> IF k = key THEN value ELSE ss[k]]
Get(ss, key, default) == IF key \in DOMAIN ss THEN ss[key] ELSE default
Restrict(ss, keys) == [k \in DOMAIN ss \cap keys |-> ss[k]]

\* A clear_form that also clears the uploaded file.
clear_form_resets_upload(ss) ==
    LET s1 == Put(ss, "recipient_email", "")
        s2 == Put(s1, "business_context", "")
        s3 == Put(s2, "alert_slider", SliderDefault)
        s4 == Put(s3, "slump_checkbox", FALSE)
        s5 == Put(s4, "slump_slider", SliderDefault)
        s6 == Put(s5, "file_uploader", None)
    IN  IF "auto_send_checkbox" \in DOMAIN s6
        THEN Put(s6, "auto_send_checkbox", FALSE)
        ELSE s6

\* def clear_form()
clear_form(ss) ==
    LET s1 == Put(ss, "recipient_email", "")
        s2 == Put(s1, "business_context", "")
        s3 == Put(s2, "alert_slider", SliderDefault)
        s4 == Put(s3, "slump_checkbox", FALSE)
        s5 == Put(s4, "slump_slider", SliderDefault)
    IN  IF "auto_send_checkbox" \in DOMAIN s5
        THEN Put(s5, "auto_send_checkbox", FALSE)
        ELSE s5

\* The keys clear_form assigns.
ClearFormKeys(ss) ==
    {"recipient_email", "business_context", "alert_slider", "slump_checkbox", "slump_slider"}
    \cup (DOMAIN ss \cap {"auto_send_checkbox"})

----------------------------------------------------------------------------
(* Exceptions *)

\* Whether an except clause naming `classes` catches `exc` ("none": nothing was raised).
\* json.JSONDecodeError is a ValueError; every exception modelled is an Exception.
Catches(classes, exc) ==
    /\ exc # "none"
    /\ \/ "Exception" \in classes
       \/ exc \in classes
       \/ exc = "JSONDecodeError" /\ "ValueError" \in classes

\* The except clauses of the script, in source order.
ExceptSecretsFile(exc) == Catches({"FileNotFoundError"}, exc)
ExceptSecretsKey(exc) == Catches({"KeyError"}, exc)
ExceptSendSecrets(exc) == Catches({"KeyError"}, exc)
ExceptSmtp(exc) == Catches({"Exception"}, exc)
ExceptDate(exc) == Catches({"Exception"}, exc)
ExceptJson(exc) == Catches({"JSONDecodeError"}, exc)
ExceptProcessing(exc) == Catches({"Exception"}, exc)
ExceptAnalysis(exc) == Catches({"Exception"}, exc)
\* A narrower handler around the CSV block: except pd.errors.ParserError.
ExceptCsv_parser_errors_only(exc) == Catches({"ParserError"}, exc)
ExceptCsv(exc) == Catches({"Exception"}, exc)

----------------------------------------------------------------------------
(* The script, from its top to the model call *)

\* What a step of the run leaves behind.
Frame(ss, so, out, p, env, made) ==
    [session_state |-> ss, session_only |-> so, screen |-> out, pc |-> p,
     locals |-> env, calls |-> made]

Header == <<Title, Caption, Widget(ResetButton), Hr>>

\* API key loading and genai.configure: what is shown, and whether st.stop() is reached.
LoadApi(configure_ok) ==
    LET exc == SecretLookup("GEMINI_API_KEY")
    IN  IF ExceptSecretsFile(exc)
        THEN [out |-> <<Error("Could not find .streamlit/secrets.toml file"),
                        Info("Please create this file and add your GEMINI_API_KEY")>>,
              stop |-> TRUE, exc |-> "none"]
        ELSE IF ExceptSecretsKey(exc)
        THEN [out |-> <<Error("GEMINI_API_KEY not found in secrets.toml"),
                        Info("Please add your Gemini API key")>>,
              stop |-> TRUE, exc |-> "none"]
        ELSE IF exc # "none"
        THEN [out |-> <<>>, stop |-> FALSE, exc |-> exc]
        ELSE IF ~configure_ok
        THEN [out |-> <<Error("Error configuring API")>>, stop |-> TRUE, exc |-> "none"]
        ELSE [out |-> <<>>, stop |-> FALSE, exc |-> "none"]

\* The input widgets: the values they return in this run.
Inputs(ss) ==
    LET recipient_email == Get(ss, "recipient_email", "")
        warn_on_slump == Get(ss, "slump_checkbox", FALSE)
    IN  [uploaded_file |-> Get(ss, "file_uploader", None),
         recipient_email |-> recipient_email,
         business_context |-> Get(ss, "business_context", ""),
         alert_threshold |-> Get(ss, "alert_slider", SliderDefault),
         warn_on_slump |-> warn_on_slump,
         slump_threshold |-> IF warn_on_slump
                             THEN Get(ss, "slump_slider", SliderDefault)
                             ELSE SlumpThresholdDefault,
         auto_send |-> IF recipient_email = ""
                       THEN FALSE
                       ELSE Get(ss, "auto_send_checkbox", FALSE)]

\* The keyed widgets the script renders in a run with these inputs.
RenderedKeys(in) ==
    {"file_uploader", "recipient_email", "business_context", "alert_slider", "slump_checkbox"}
    \cup (IF in.warn_on_slump THEN {"slump_slider"} ELSE {})
    \cup (IF in.recipient_email # "" THEN {"auto_send_checkbox"} ELSE {})

WidgetDefault(key) ==
    CASE key = "file_uploader" -> None
      [] key \in {"recipient_email", "business_context"} -> ""
      [] key \in {"alert_slider", "slump_slider"} -> SliderDefault
      [] OTHER -> FALSE

\* Session state once the run ends: a rendered widget keeps (or gets) its value, the
\* state of a widget that was not rendered is dropped unless the script assigned it.
StateAfterRun(ss, so, rendered) ==
    [k \in rendered \cup (DOMAIN ss \cap so) |-> Get(ss, k, WidgetDefault(k))]

InputWidgets(in) ==
    <<Widget("file_uploader"), Widget("recipient_email"), Widget("business_context"),
      Widget("alert_slider"), Widget("slump_checkbox")>>
    \o (IF in.warn_on_slump THEN <<Widget("slump_slider")>> ELSE <<>>)
    \o <<Hr, Markdown("Take Action")>>
    \o (IF in.recipient_email = ""
        THEN <<Warning("Please enter a recipient email (Step 2) to enable alert actions")>>
        ELSE <<Widget("auto_send_checkbox")>>)
    \o <<Hr>>

\* The body of the try that reads the CSV, up to the Analyze button: what is shown
\* and the exception that ends it ("none": the button is reached).
ReadCsv(df) ==
    IF ~df.readable
    THEN [out |-> <<>>, exc |-> "ParserError"]
    ELSE
    LET dateExc == IF "date" \notin df.columns THEN "KeyError"
                   ELSE IF ~df.dates_parse THEN "ValueError"
                   ELSE "none"
        dateOut == IF ExceptDate(dateExc)
                   THEN <<Warning("Could not parse dates. Charts may be incorrect")>>
                   ELSE <<>>
        chartsExc == IF "sku" \notin df.columns THEN "KeyError"
                     ELSE IF df.rows /\ "date" \notin df.columns THEN "KeyError"
                     ELSE IF df.rows /\ "sales" \notin df.columns THEN "StreamlitAPIException"
                     ELSE "none"
    IN  [out |-> dateOut \o <<Expander("Data Preview"), Expander("All Sales Charts")>>,
         exc |-> chartsExc]

\* subject_text, as the parts the f-string joins.
SubjectText(in) ==
    IF in.warn_on_slump
    THEN <<<<"SUBJECT: ">>, <<"Sales Velocity Alert (Spikes & Slumps Detected)">>>>
    ELSE <<<<"SUBJECT: ">>, <<"URGENT: Demand Spike Warning (Threshold: %)", in.alert_threshold>>>>

SpinnerText(in) ==
    IF in.warn_on_slump
    THEN <<"spinner", "AI is analyzing for spikes and slumps", in.alert_threshold, in.slump_threshold>>
    ELSE <<"spinner", "AI is analyzing for spikes", in.alert_threshold>>

\* The prompt: the data, the business context, the spike task, the slump task when
\* slump warnings are on, and the JSON format, which always names both types.
Prompt(in) ==
    [data |-> in.uploaded_file,
     context |-> in.business_context,
     spike_task |-> in.alert_threshold,
     slump_task |-> IF in.warn_on_slump THEN <<in.slump_threshold>> ELSE <<>>,
     asks_for |-> "a JSON list of all spikes and slumps",
     format_types |-> {"spike", "slump"}]

\* The script from its top, with session state ss, in the run `click` triggered.
Script(ss, so, click, configure_ok) ==
    LET api == LoadApi(configure_ok)
        in == Inputs(ss)
        rendered == RenderedKeys(in)
        after == StateAfterRun(ss, so, rendered)
        top == Header \o InputWidgets(in)
        csv == ReadCsv(in.uploaded_file)
    IN  IF api.exc # "none"
        THEN Frame(Restrict(ss, so), so, Header, "crashed", <<>>, <<>>)
        ELSE IF api.stop
        THEN Frame(Restrict(ss, so), so, Header \o api.out, "stopped", <<>>, <<>>)
        ELSE IF in.uploaded_file = None
        THEN Frame(after, so \ rendered, top, "done", in, <<>>)
        ELSE IF ExceptCsv(csv.exc)
        THEN Frame(after, so \ rendered,
                   top \o csv.out \o <<Error("Error reading CSV file")>>, "done", in, <<>>)
        ELSE IF csv.exc # "none"
        THEN Frame(after, so \ rendered, top \o csv.out, "crashed", in, <<>>)
        ELSE IF click # AnalyzeButton
        THEN Frame(after, so \ rendered, top \o csv.out \o <<Widget(AnalyzeButton)>>,
                   "done", in, <<>>)
        ELSE Frame(after, so \ rendered,
                   top \o csv.out \o <<Widget(AnalyzeButton), SpinnerText(in)>>,
                   "generate_content",
                   in @@ [subject_text |-> SubjectText(in), prompt |-> Prompt(in)],
                   <<<<"generate_content", Prompt(in)>>>>)

----------------------------------------------------------------------------
(* The reply of the model: parsing, the alert cards and the email body *)

\* response.text.strip().replace("```json", "").replace("```", "")
StripFences(text) == [text EXCEPT !.fenced = FALSE]

\* json.loads: the value, or JSONDecodeError for anything but one bare JSON value.
JsonLoads(text) ==
    IF text.fenced \/ text.prose \/ text.payload.t = "garbage"
    THEN [exc |-> "JSONDecodeError", value |-> JNull]
    ELSE [exc |-> "none", value |-> text.payload]

\* Python's `not alerts`.
Falsy(v) ==
    CASE v.t = "list" -> v.items = <<>>
      [] v.t = "object" -> DOMAIN v.members = {}
      [] v.t = "string" -> v.s = ""
      [] v.t = "number" -> v.n = 0
      [] OTHER -> TRUE

RECURSIVE SetToSeq(_)
SetToSeq(S) == IF S = {} THEN <<>> ELSE LET x == CHOOSE x \in S : TRUE IN <<x>> \o SetToSeq(S \ {x})

\* Python's `for alert in alerts`: a list gives its items, a dict its keys, a string
\* its characters (strings each); anything else is not iterable.
Iterate(v) ==
    CASE v.t = "list" -> [exc |-> "none", items |-> v.items]
      [] v.t = "object" ->
            [exc |-> "none", items |-> [i \in 1..Cardinality(DOMAIN v.members) |->
                                          JString(SetToSeq(DOMAIN v.members)[i])]]
      [] v.t = "string" -> [exc |-> "none", items |-> <<JString("a character of the string")>>]
      [] OTHER -> [exc |-> "TypeError", items |-> <<>>]

\* alert[key]
Subscript(alert, key) ==
    IF alert.t # "object" THEN "TypeError"
    ELSE IF key \notin DOMAIN alert.members THEN "KeyError"
    ELSE "none"

FieldLabels == <<"SKU", "Location", "Today's Sales", "7-Day Average", "Change %", "Suggested Cause">>
NoWarnings == "All SKUs are operating within normal sales velocity. No warnings to report."
Greeting == <<"line", "Hi Team, My analysis is complete. Here are the findings:">>
SignOff == <<"line", "Best, Sales Velocity Agent">>
Line(what, v) == <<"line", what, v>>

\* A heading that is SLUMP only for type "slump".
Heading_slump_only_for_slump(alert, in) ==
    IF alert.members["type"] = "slump"
    THEN <<"SLUMP WARNING (>%)", in.slump_threshold>>
    ELSE <<"SPIKE WARNING (>%)", in.alert_threshold>>

\* The heading of an alert's card: SPIKE for type "spike", SLUMP for anything else.
Heading(alert, in) ==
    IF alert.members["type"] = "spike"
    THEN <<"SPIKE WARNING (>%)", in.alert_threshold>>
    ELSE <<"SLUMP WARNING (>%)", in.slump_threshold>>

\* df[df['sku'] == alert['sku']].sort_values('date') and st.line_chart(x='date', y='sales')
AlertChart(df) ==
    IF "date" \notin df.columns THEN "KeyError"
    ELSE IF "sales" \notin df.columns THEN "StreamlitAPIException"
    ELSE "none"

\* A loop body that reads the fields with alert.get(key): a missing field is
\* rendered as None and raises nothing.
RenderAlert_with_get(alert, in) ==
    IF alert.t # "object"
    THEN [out |-> <<>>, body |-> <<>>, exc |-> "AttributeError"]
    ELSE [out |-> <<Hr, MarkdownV("SLUMP WARNING (>%)", in.slump_threshold)>>,
          body |-> <<Line("SLUMP WARNING (>%)", in.slump_threshold)>>, exc |-> "none"]

\* One pass of the loop body: what it renders, what it adds to the email body, and
\* the exception that ends it.
RenderAlert(alert, in) ==
    IF Subscript(alert, "type") # "none"
    THEN [out |-> <<>>, body |-> <<>>, exc |-> Subscript(alert, "type")]
    ELSE
    LET m == alert.members
        h == Heading(alert, in)
        head == <<Hr, MarkdownV(h[1], h[2])>>
        headLine == <<Line(h[1], h[2])>>
        n == CHOOSE k \in 0..Len(AlertFields) :
                /\ \A i \in 1..k : AlertFields[i] \in DOMAIN m
                /\ k < Len(AlertFields) => AlertFields[k + 1] \notin DOMAIN m
        shown == [i \in 1..n |-> MarkdownV(FieldLabels[i], m[AlertFields[i]])]
    IN  IF n < Len(AlertFields)
        THEN [out |-> head \o shown, body |-> headLine, exc |-> "KeyError"]
        ELSE IF AlertChart(in.uploaded_file) # "none"
        THEN [out |-> head \o shown \o <<MarkdownV("Data for", m["sku"])>>,
              body |-> headLine, exc |-> AlertChart(in.uploaded_file)]
        ELSE [out |-> head \o shown \o <<MarkdownV("Data for", m["sku"]), LineChart(m["sku"])>>,
              body |-> headLine \o [i \in 1..Len(AlertFields) |->
                                        Line(FieldLabels[i], m[AlertFields[i]])],
              exc |-> "none"]

RECURSIVE RenderLoop(_, _, _, _)
\* for alert in alerts: the loop from item i on, acc being what the earlier passes left.
RenderLoop(items, i, in, acc) ==
    IF i > Len(items)
    THEN acc
    ELSE LET r == RenderAlert(items[i], in)
             next == [out |-> acc.out \o r.out, body |-> acc.body \o r.body, exc |-> r.exc]
         IN  IF r.exc # "none" THEN next ELSE RenderLoop(items, i + 1, in, next)

\* The report: the no-warnings message for a falsy reply, the cards otherwise.
RenderReport(alerts, in) ==
    IF Falsy(alerts)
    THEN [out |-> <<Markdown(NoWarnings)>>, body |-> <<Greeting, <<"line", NoWarnings>>>>,
          exc |-> "none"]
    ELSE IF Iterate(alerts).exc # "none"
    THEN [out |-> <<>>, body |-> <<Greeting>>, exc |-> Iterate(alerts).exc]
    ELSE RenderLoop(Iterate(alerts).items, 1, in,
                    [out |-> <<>>, body |-> <<Greeting>>, exc |-> "none"])

\* subject_text.replace("SUBJECT: ", "")
SubjectClean(subject_text) == SelectSeq(subject_text, LAMBDA part : part # <<"SUBJECT: ">>)

----------------------------------------------------------------------------
(* Sending *)

\* A send_email that opens a second SMTP session after the first.
send_email_retrying(recipient_email, subject, body) ==
    [calls |-> <<<<"send_email", recipient_email, subject, body>>,
                 <<"SMTP", "smtp.gmail.com", SmtpPort>>,
                 <<"SMTP", "smtp.gmail.com", SmtpPort>>>>,
     out |-> <<>>, wait |-> TRUE, exc |-> "none", success |-> FALSE]

\* send_email up to its SMTP session: the call, and either the error shown for a
\* missing SENDER_EMAIL or SENDER_PASSWORD (it returns False) or the wait for the
\* session.
send_email(recipient_email, subject, body) ==
    LET exc == IF SecretLookup("SENDER_EMAIL") # "none"
               THEN SecretLookup("SENDER_EMAIL")
               ELSE SecretLookup("SENDER_PASSWORD")
        call == <<"send_email", recipient_email, subject, body>>
    IN  IF ExceptSendSecrets(exc)
        THEN [calls |-> <<call>>,
              out |-> <<Error("Email Send Error: SENDER_EMAIL or SENDER_PASSWORD not found in secrets"),
                        Info("Please add your dummy email credentials")>>,
              wait |-> FALSE, exc |-> "none", success |-> FALSE]
        ELSE IF exc # "none"
        THEN [calls |-> <<call>>, out |-> <<>>, wait |-> FALSE, exc |-> exc, success |-> FALSE]
        ELSE [calls |-> <<call, <<"SMTP", "smtp.gmail.com", SmtpPort>>>>,
              out |-> <<>>, wait |-> TRUE, exc |-> "none", success |-> FALSE]

\* What was rendered before a call comes first.
After(out, s) == [s EXCEPT !.out = out \o s.out]

\* with st.spinner(f"Sending email from {st.secrets['SENDER_EMAIL']}..."): send_email(...)
SendWithSpinner(recipient_email, subject, body) ==
    IF SecretLookup("SENDER_EMAIL") # "none"
    THEN [calls |-> <<>>, out |-> <<>>, wait |-> FALSE,
          exc |-> SecretLookup("SENDER_EMAIL"), success |-> FALSE]
    ELSE After(<<<<"spinner", "Sending email from SENDER_EMAIL">>>>,
               send_email(recipient_email, subject, body))

\* The end of the try body, after the send branch.
Revealer == <<Hr, Expander("the exact prompt sent to the AI")>>

AutonomousInfo(recipient_email) ==
    <<"info", "Autonomous mode enabled. Sending alert to", recipient_email>>

\* A send branch that ignores auto_send and always waits for the send button.
SendBranch_review_only(in, click, subject, body) ==
    After(<<MarkdownV("Ready to send the report to", in.recipient_email),
            Widget(SendButton)>>,
          IF click = SendButton
          THEN SendWithSpinner(in.recipient_email, subject, body)
          ELSE [calls |-> <<>>, out |-> <<>>, wait |-> FALSE, exc |-> "none",
                success |-> FALSE])

\* The send branch: autonomous mode sends now; review mode shows the send button and
\* sends in a run in which that button returns True.
SendBranch(in, click, subject, body) ==
    IF in.auto_send
    THEN After(<<AutonomousInfo(in.recipient_email)>>,
               SendWithSpinner(in.recipient_email, subject, body))
    ELSE After(<<MarkdownV("Ready to send the report to", in.recipient_email),
                 Widget(SendButton)>>,
               IF click = SendButton
               THEN SendWithSpinner(in.recipient_email, subject, body)
               ELSE [calls |-> <<>>, out |-> <<>>, wait |-> FALSE, exc |-> "none",
                     success |-> FALSE])

----------------------------------------------------------------------------
(* The try blocks around the model call *)

\* The handlers of the inner try, for an exception raised while the reply is
\* processed: JSONDecodeError, then Exception.  Both show response.text, which
\* raises again for a reply that has none.  exc is what still propagates.
InnerHandlers(exc, response) ==
    LET Handled(message) ==
            IF response.kind = "text"
            THEN [out |-> <<Error(message), RawText(response.text)>>, exc |-> "none"]
            ELSE [out |-> <<Error(message)>>, exc |-> "ValueError"]
    IN  IF exc = "none"
        THEN [out |-> <<>>, exc |-> "none"]
        ELSE IF ExceptJson(exc)
        THEN Handled("The AI's response was not in the correct JSON format")
        ELSE IF ExceptProcessing(exc)
        THEN Handled("Error while processing alerts")
        ELSE [out |-> <<>>, exc |-> exc]

\* The handler around the analysis, then the one around the whole CSV block.
OuterHandlers(exc) ==
    IF exc = "none"
    THEN [out |-> <<>>, exc |-> "none"]
    ELSE IF ExceptAnalysis(exc)
    THEN [out |-> <<Error("An error occurred during analysis")>>, exc |-> "none"]
    ELSE IF ExceptCsv(exc)
    THEN [out |-> <<Error("Error reading CSV file")>>, exc |-> "none"]
    ELSE [out |-> <<>>, exc |-> exc]

\* An exception raised in the inner try body, through all the handlers around it.
Unwind(exc, response) ==
    LET Outer(inner) == After(inner.out, OuterHandlers(inner.exc))
    IN  Outer(InnerHandlers(exc, response))

\* The body of the inner try: parse the reply, render the report, build the email
\* body, take the send branch.
ProcessReply(env, click, response) ==
    LET Raised(exc) == [out |-> <<>>, calls |-> <<>>, wait |-> FALSE, env |-> <<>>, exc |-> exc]
        AfterSend(alerts, report, email_body_text, subject_clean, sent) ==
            [out |-> report.out \o <<Hr>> \o sent.out
                     \o (IF sent.wait \/ sent.exc # "none" THEN <<>> ELSE Revealer),
             calls |-> sent.calls, wait |-> sent.wait, exc |-> sent.exc,
             env |-> [alerts |-> alerts, email_body_text |-> email_body_text,
                      subject_clean |-> subject_clean]
                     @@ (IF sent.calls # <<>> /\ ~sent.wait /\ sent.exc = "none"
                         THEN [success |-> sent.success] ELSE <<>>)]
        WithBody(alerts, report, email_body_text, subject_clean) ==
            AfterSend(alerts, report, email_body_text, subject_clean,
                      SendBranch(env, click, subject_clean, email_body_text))
        AfterReport(alerts, report) ==
            IF report.exc # "none"
            THEN [out |-> report.out, calls |-> <<>>, wait |-> FALSE, exc |-> report.exc,
                  env |-> [alerts |-> alerts, email_body_text |-> report.body]]
            ELSE WithBody(alerts, report, report.body \o <<SignOff>>,
                          SubjectClean(env.subject_text))
        AfterParse(parsed) ==
            IF parsed.exc # "none"
            THEN Raised(parsed.exc)
            ELSE AfterReport(parsed.value, RenderReport(parsed.value, env))
    IN  IF response.kind # "text"
        THEN Raised("ValueError")
        ELSE AfterParse(JsonLoads(StripFences(response.text)))

\* The run from the return of model.generate_content to its end or to the SMTP session.
HandleResponse(env, click, response) ==
    LET Joined(body, u) ==
            [out |-> <<Success("Analysis Complete!"), Markdown("AI-Generated Visual Report")>>
                     \o body.out \o u.out,
             calls |-> body.calls, wait |-> body.wait, exc |-> u.exc,
             env |-> body.env @@ [response |-> response]]
        Handled(body) == Joined(body, Unwind(body.exc, response))
        Failed(u) == [out |-> u.out, calls |-> <<>>, wait |-> FALSE, exc |-> u.exc, env |-> <<>>]
    IN  IF response.kind = "raises"
        THEN Failed(OuterHandlers("Exception"))
        ELSE Handled(ProcessReply(env, click, response))

\* The run from the end of the SMTP session: send_email returns, the success message
\* is shown if it returned True, the script runs to its end.
HandleSmtp(env, outcome) ==
    LET Returned(exc) ==
            IF exc = "none"
            THEN [out |-> <<Success("Email sent successfully!")>> \o Revealer, exc |-> "none",
                  env |-> [success |-> TRUE]]
            ELSE IF ExceptSmtp(exc)
            THEN [out |-> <<Error(IF exc = "SMTPAuthenticationError"
                                  THEN "Email Send Error: SENDER_EMAIL or SENDER_PASSWORD is incorrect"
                                  ELSE "Email Send Error")>> \o Revealer,
                  exc |-> "none", env |-> [success |-> FALSE]]
            ELSE Unwind(exc, env.response) @@ [env |-> <<>>]
    IN  Returned(CASE outcome = "sent" -> "none"
                   [] outcome = "auth_rejected" -> "SMTPAuthenticationError"
                   [] OTHER -> "OSError")

----------------------------------------------------------------------------
(* Actions *)

Finished == {"done", "stopped", "crashed"}

\* A user interaction with a rendered widget: the widget's state changes (or the
\* callback runs), the previous run's output is discarded, the script reruns.
Interact(ss, so, click) ==
    /\ session_state' = ss
    /\ session_only' = so
    /\ clicked' = click
    /\ pc' = "rerun"
    /\ screen' = <<>>
    /\ locals' = <<>>
    /\ calls' = <<>>
    /\ UNCHANGED secrets

\* The user can give the rendered widget `key` the new value `value`.
CanSet(key, value) ==
    /\ pc \in Finished
    /\ Shown(screen, Widget(key))
    /\ Get(session_state, key, WidgetDefault(key)) # value

OpenPage ==
    /\ pc \in Finished
    /\ Interact(<<>>, {}, "none")

Upload ==
    \E f \in Files \cup {None} :
        /\ CanSet("file_uploader", f)
        /\ Interact(Put(session_state, "file_uploader", f), session_only, "none")

TypeRecipient ==
    \E v \in Recipients :
        /\ CanSet("recipient_email", v)
        /\ Interact(Put(session_state, "recipient_email", v), session_only, "none")

TypeContext ==
    \E v \in Contexts :
        /\ CanSet("business_context", v)
        /\ Interact(Put(session_state, "business_context", v), session_only, "none")

MoveSpikeSlider ==
    \E v \in SliderChoices :
        /\ CanSet("alert_slider", v)
        /\ Interact(Put(session_state, "alert_slider", v), session_only, "none")

ToggleSlump ==
    \E v \in BOOLEAN :
        /\ CanSet("slump_checkbox", v)
        /\ Interact(Put(session_state, "slump_checkbox", v), session_only, "none")

MoveSlumpSlider ==
    \E v \in SliderChoices :
        /\ CanSet("slump_slider", v)
        /\ Interact(Put(session_state, "slump_slider", v), session_only, "none")

ToggleAutoSend ==
    \E v \in BOOLEAN :
        /\ CanSet("auto_send_checkbox", v)
        /\ Interact(Put(session_state, "auto_send_checkbox", v), session_only, "none")

ClickReset ==
    /\ pc \in Finished
    /\ Shown(screen, Widget(ResetButton))
    /\ Interact(clear_form(session_state),
                session_only \cup ClearFormKeys(session_state), ResetButton)

ClickAnalyze ==
    /\ pc \in Finished
    /\ Shown(screen, Widget(AnalyzeButton))
    /\ Interact(session_state, session_only, AnalyzeButton)

ClickSend ==
    /\ pc \in Finished
    /\ Shown(screen, Widget(SendButton))
    /\ Interact(session_state, session_only, SendButton)

ScriptRun ==
    /\ pc = "rerun"
    /\ \E configure_ok \in BOOLEAN :
          \E f \in {Script(session_state, session_only, clicked, configure_ok)} :
              /\ session_state' = f.session_state
              /\ session_only' = f.session_only
              /\ pc' = f.pc
              /\ screen' = f.screen
              /\ locals' = f.locals
              /\ calls' = f.calls
    /\ UNCHANGED <<secrets, clicked>>

GenerateReturns ==
    /\ pc = "generate_content"
    /\ \E response \in Responses :
          \E r \in {HandleResponse(locals, clicked, response)} :
              /\ screen' = screen \o r.out
              /\ locals' = r.env @@ locals
              /\ calls' = calls \o r.calls
              /\ pc' = IF r.exc # "none" THEN "crashed"
                       ELSE IF r.wait THEN "smtp" ELSE "done"
    /\ UNCHANGED <<secrets, session_state, session_only, clicked>>

SmtpReturns ==
    /\ pc = "smtp"
    /\ \E outcome \in SmtpOutcomes :
          \E r \in {HandleSmtp(locals, outcome)} :
              /\ screen' = screen \o r.out
              /\ locals' = r.env @@ locals
              /\ pc' = IF r.exc # "none" THEN "crashed" ELSE "done"
    /\ UNCHANGED <<secrets, session_state, session_only, clicked, calls>>

Init ==
    /\ secrets \in SecretsConfigs
    /\ session_state = <<>>
    /\ session_only = {}
    /\ clicked = "none"
    /\ pc = "rerun"
    /\ screen = <<>>
    /\ locals = <<>>
    /\ calls = <<>>

Next ==
    \/ OpenPage
    \/ Upload
    \/ TypeRecipient
    \/ TypeContext
    \/ MoveSpikeSlider
    \/ ToggleSlump
    \/ MoveSlumpSlider
    \/ ToggleAutoSend
    \/ ClickReset
    \/ ClickAnalyze
    \/ ClickSend
    \/ ScriptRun
    \/ GenerateReturns
    \/ SmtpReturns

Spec == Init /\ [][Next]_vars

----------------------------------------------------------------------------
(* Observations the properties are stated with *)

CountCalls(name) == Cardinality({i \in 1..Len(calls) : calls[i][1] = name})
ErrorShown == ShownKind(screen, "error")
EmailSuccess == Success("Email sent successfully!")
DateWarning == Warning("Could not parse dates. Charts may be incorrect")
Bound(name) == name \in DOMAIN locals

\* The reply is text holding exactly one JSON value.
ReplyIsJson ==
    /\ Bound("response")
    /\ locals.response.kind = "text"
    /\ ~locals.response.text.prose
    /\ locals.response.text.payload # Garbage
ReplyValue == locals.response.text.payload

\* An alert that carries every field of the prompted schema.
FullObject(a) ==
    /\ a.t = "object"
    /\ {"type", "sku", "location", "today_sales", "avg_sales", "change_pct", "cause"}
          \subseteq DOMAIN a.members
EmptyReply(v) == v \in {JList(<<>>), JObject(<<>>), JNull, JNumber(0), JString("")}
ListOfAlerts(v) == v.t = "list" /\ v.items # <<>> /\ \A i \in 1..Len(v.items) : FullObject(v.items[i])
\* The uploaded CSV has the columns the per-alert chart reads.
Chartable(df) == {"date", "sales"} \subseteq df.columns

IsHeading(token) ==
    /\ token[1] = "markdown"
    /\ Len(token) = 3
    /\ token[2] \in {"SPIKE WARNING (>%)", "SLUMP WARNING (>%)"}
IsSlumpHeading(token) == Len(token) = 3 /\ token[1] \in {"markdown", "line"}
                         /\ token[2] = "SLUMP WARNING (>%)"
Headings(s) == {i \in 1..Len(s) : IsHeading(s[i])}

----------------------------------------------------------------------------
(* C1: error handling at the boundaries *)

SendAttempted == Bound("subject_clean") /\ (locals.auto_send \/ clicked = SendButton)
SmtpFailed == CountCalls("SMTP") >= 1 /\ Bound("success") /\ ~locals.success

\* C1: no exception propagates out of the script, and once the run has ended an
\* error message is on the screen in each of: (a) GEMINI_API_KEY missing (the run
\* stops), (b) SENDER_EMAIL or SENDER_PASSWORD missing when a send is attempted,
\* (c) a reply that is not valid JSON, (d) a failed SMTP session, rejected
\* credentials included, (e) a CSV that cannot be read.
C1_ErrorsSurfaced ==
    /\ pc # "crashed"
    /\ pc \in Finished =>
          /\ SecretLookup("GEMINI_API_KEY") # "none" => ErrorShown /\ pc = "stopped"
          /\ SendAttempted /\ ~({"SENDER_EMAIL", "SENDER_PASSWORD"} \subseteq secrets.keys)
                => ErrorShown
          /\ Bound("response") /\ locals.response.kind = "text" /\ ~ReplyIsJson => ErrorShown
          /\ SmtpFailed => ErrorShown
          /\ Bound("uploaded_file") /\ locals.uploaded_file # None
                /\ ~locals.uploaded_file.readable => ErrorShown

\* C1 witness: a run that ended after the SMTP server rejected the credentials, with
\* the error on the screen.
C1_Witness ==
    /\ pc = "done"
    /\ SmtpFailed
    /\ Shown(screen, Error("Email Send Error: SENDER_EMAIL or SENDER_PASSWORD is incorrect"))

----------------------------------------------------------------------------
(* C2: nothing is retried *)

ExternalCalls == {"generate_content", "send_email", "SMTP"}
AtMostOnce == \A name \in ExternalCalls : CountCalls(name) <= 1
Rank(p) ==
    CASE p = "rerun" -> 0
      [] p = "generate_content" -> 1
      [] p = "smtp" -> 2
      [] OTHER -> 3

\* C2: in a run the model is called at most once and send_email (one SMTP session)
\* at most once; the return of an external call, failed or not, adds no call of
\* that kind; and every step of a run moves it forward (script, model call, SMTP
\* session, end) and leaves it either ended or with its next step enabled, so that
\* a run ends once its external calls have returned.
C2_NoRetry ==
    [][/\ AtMostOnce'
       /\ pc \notin Finished => Rank(pc') > Rank(pc)
       /\ pc' \notin Finished => (ENABLED (ScriptRun \/ GenerateReturns \/ SmtpReturns))'
       /\ pc = "generate_content" => CountCalls("generate_content")' = CountCalls("generate_content")
       /\ pc = "smtp" => calls' = calls /\ pc' \in Finished]_vars

\* C2 witness: a run that made both calls, whose SMTP session failed, and that ended.
C2_Witness ==
    /\ pc = "done"
    /\ CountCalls("generate_content") = 1
    /\ CountCalls("send_email") = 1
    /\ SmtpFailed

----------------------------------------------------------------------------
(* C3: the send button of review mode *)

\* C3: with a recipient entered and the sender's credentials configured, the run that
\* a click on "Click Here to Send the Email Alert" triggers calls send_email with the
\* recipient.
C3_ReviewSendSends ==
    (/\ clicked = SendButton
     /\ pc = "done"
     /\ locals.recipient_email # ""
     /\ {"SENDER_EMAIL", "SENDER_PASSWORD"} \subseteq secrets.keys) =>
        \E i \in 1..Len(calls) :
            calls[i][1] = "send_email" /\ calls[i][2] = locals.recipient_email

----------------------------------------------------------------------------
(* C4: the alert cards and the email body *)

FieldNames == <<"sku", "location", "today_sales", "avg_sales", "change_pct", "cause">>
CardLabels == <<"SKU", "Location", "Today's Sales", "7-Day Average", "Change %", "Suggested Cause">>
ExpectedHeading(a) ==
    IF a.members.type = "spike"
    THEN <<"SPIKE WARNING (>%)", locals.alert_threshold>>
    ELSE <<"SLUMP WARNING (>%)", locals.slump_threshold>>
\* The card of alert a: the rule, the heading, its six values, its chart.
ExpectedCard(a) ==
    <<<<"markdown", "---">>,
      <<"markdown", ExpectedHeading(a)[1], ExpectedHeading(a)[2]>>>>
    \o [i \in 1..6 |-> <<"markdown", CardLabels[i], a.members[FieldNames[i]]>>]
    \o <<<<"markdown", "Data for", a.members.sku>>, <<"line_chart", a.members.sku>>>>
\* The section of alert a in the email body.
ExpectedSection(a) ==
    <<<<"line", ExpectedHeading(a)[1], ExpectedHeading(a)[2]>>>>
    \o [i \in 1..6 |-> <<"line", CardLabels[i], a.members[FieldNames[i]]>>]
CardLen == 2 + Len(CardLabels) + 2
SectionLen == 1 + Len(CardLabels)
ReportStart == CHOOSE i \in 1..Len(screen) : screen[i] = Markdown("AI-Generated Visual Report")
Processed == pc \in {"smtp", "done"} /\ clicked = AnalyzeButton /\ ReplyIsJson

----------------------------------------------------------------------------
(* C5: slump warnings *)

\* C5: with the slump checkbox unchecked, the prompt has no slump task, the subject
\* is the spike-only subject, and neither the screen nor the email body holds a
\* SLUMP WARNING, whatever the model replies.
C5_SlumpOptIn ==
    Bound("warn_on_slump") /\ ~locals.warn_on_slump =>
        /\ Bound("prompt") => locals.prompt.slump_task = <<>>
        /\ Bound("subject_text") =>
              locals.subject_text[2][1] = "URGENT: Demand Spike Warning (Threshold: %)"
        /\ \A i \in 1..Len(screen) : ~IsSlumpHeading(screen[i])
        /\ Bound("email_body_text") =>
              \A i \in 1..Len(locals.email_body_text) : ~IsSlumpHeading(locals.email_body_text[i])

----------------------------------------------------------------------------
(* C6: no email on a failed analysis *)

RendersClean(v, df) == EmptyReply(v) \/ (ListOfAlerts(v) /\ Chartable(df))

\* C6: a send is attempted (send_email is called, or autonomous mode announces the
\* send) only in a run in which generate_content returned, the reply parsed as JSON
\* and every alert in it is an object carrying every field and was rendered.
C6_NoSendOnFailedAnalysis ==
    (CountCalls("send_email") >= 1
     \/ (Bound("recipient_email") /\ Shown(screen, AutonomousInfo(locals.recipient_email)))) =>
        /\ CountCalls("generate_content") = 1
        /\ ReplyIsJson
        /\ RendersClean(ReplyValue, locals.uploaded_file)
        /\ ~Shown(screen, Error("Error while processing alerts"))
              \/ SecretLookup("SENDER_EMAIL") # "none"

\* C6 witness: autonomous mode called send_email after a reply of MaxAlerts alerts
\* was rendered.
C6_Witness ==
    /\ CountCalls("send_email") = 1
    /\ locals.auto_send
    /\ ListOfAlerts(ReplyValue)
    /\ Cardinality(Headings(screen)) >= 2

----------------------------------------------------------------------------
(* C7: autonomous mode *)

\* C7: with auto-send on, SENDER_EMAIL configured and a reply that parsed and was
\* rendered without error, the run of the Analyze click has made exactly one
\* send_email call, with the recipient, the cleaned subject and the email body (the
\* no-warnings report for an empty list), by the time it waits for SMTP or ends;
\* and the success message is on the screen exactly when send_email returned True.
C7_AutonomousSendsOnce ==
    /\ (/\ Processed
        /\ locals.auto_send
        /\ SecretLookup("SENDER_EMAIL") = "none"
        /\ RendersClean(ReplyValue, locals.uploaded_file)) =>
          /\ CountCalls("send_email") = 1
          /\ \E i \in 1..Len(calls) :
                calls[i] = <<"send_email", locals.recipient_email,
                             Tail(locals.subject_text), locals.email_body_text>>
          /\ EmptyReply(ReplyValue) =>
                locals.email_body_text = <<Greeting, <<"line", NoWarnings>>, SignOff>>
    /\ Shown(screen, EmailSuccess) <=> (Bound("success") /\ locals.success)

\* C7 witness: autonomous mode sent the no-warnings report of an empty list and the
\* success message is shown.
C7_Witness ==
    /\ Processed
    /\ pc = "done"
    /\ locals.auto_send
    /\ ReplyValue = JList(<<>>)
    /\ CountCalls("send_email") = 1
    /\ Shown(screen, EmailSuccess)

----------------------------------------------------------------------------
(* C8: the preconditions of the model call *)

InputWidgetShown ==
    \E key \in WidgetKeys : Shown(screen, Widget(key))

\* The model is called only in a run of the Analyze click in which the API key was
\* loaded, a file is uploaded, it was read and has a 'sku' column; a run that stops
\* for the API key renders no input widget.
ModelCallGuarded ==
    /\ CountCalls("generate_content") >= 1 =>
          /\ SecretLookup("GEMINI_API_KEY") = "none"
          /\ clicked = AnalyzeButton
          /\ locals.uploaded_file # None
          /\ locals.uploaded_file.readable
          /\ "sku" \in locals.uploaded_file.columns
    /\ pc = "stopped" => ~InputWidgetShown /\ CountCalls("generate_content") = 0

\* C8: ModelCallGuarded, and a failure to parse the 'date' column only warns: in a
\* run that showed the date warning for a CSV that has its sku and sales columns,
\* the analysis is not blocked (the Analyze button is rendered).
C8_ModelCallPreconditions ==
    /\ ModelCallGuarded
    /\ (/\ pc \in Finished
        /\ Shown(screen, DateWarning)
        /\ {"sku", "sales"} \subseteq locals.uploaded_file.columns) =>
          Shown(screen, Widget(AnalyzeButton))

----------------------------------------------------------------------------
(* C9: Reset Demo *)

ResetValues(ss) ==
    /\ ss["recipient_email"] = ""
    /\ ss["business_context"] = ""
    /\ ss["alert_slider"] = 25
    /\ ss["slump_checkbox"] = FALSE
    /\ ss["slump_slider"] = 25

\* C9: the step in which clear_form runs leaves recipient_email and business_context
\* empty, both sliders at 25, the slump checkbox False and the auto-send checkbox
\* False if it was in session state; it leaves the uploaded file as it was and makes
\* no call; applying clear_form again changes nothing; and the run the click
\* triggers calls neither the model nor send_email.
C9_ResetKeepsUpload ==
    [][/\ (clicked' = ResetButton /\ pc' = "rerun") =>
             /\ ResetValues(session_state')
             /\ ("auto_send_checkbox" \in DOMAIN session_state')
                   = ("auto_send_checkbox" \in DOMAIN session_state)
             /\ "auto_send_checkbox" \in DOMAIN session_state' =>
                   session_state'["auto_send_checkbox"] = FALSE
             /\ ("file_uploader" \in DOMAIN session_state')
                   = ("file_uploader" \in DOMAIN session_state)
             /\ Get(session_state', "file_uploader", None) = Get(session_state, "file_uploader", None)
             /\ clear_form(session_state') = session_state'
             /\ calls' = <<>>
       /\ clicked' = ResetButton => calls' = <<>>]_vars

\* C9 witness: clear_form has just run with a file uploaded and the auto-send
\* checkbox in session state; the file is still there.
C9_Witness ==
    /\ pc = "rerun"
    /\ clicked = ResetButton
    /\ Get(session_state, "file_uploader", None) = GoodCsv
    /\ "auto_send_checkbox" \in DOMAIN session_state
    /\ ResetValues(session_state)

====
